---- MODULE Spec2Model ----
(***************************************************************************)
(* NetSim: the network topology model (src/model/network_model.py).        *)
(*                                                                         *)
(* NetworkModel keeps three structures: the networkx graph G, the position *)
(* map node_positions and the ordered edge-record list _edges.  Every      *)
(* public method is one action.  A method that raises leaves the state it  *)
(* had reached when the exception left it, and the exception's type is     *)
(* recorded in exc.                                                        *)
(***************************************************************************)
EXTENDS Integers, Sequences, FiniteSets, TLC

VARIABLES
    G,                \* nx.Graph: [nodes |-> set of names, weight |-> {u,v} -> w]
    node_positions,   \* dict: name -> position
    _edges,           \* list of <<src, dest, weight>> records
    call,             \* name of the method called last ("None": none yet)
    exc,              \* exception the last call raised ("None": it returned)
    disk,             \* text of the file save_to_file wrote ("None": none yet)
    source,           \* get_forwarding_table: the argument `node`
    distances,        \* get_forwarding_table: dict distances
    previous,         \* get_forwarding_table: dict previous
    next_hop,         \* get_forwarding_table: dict next_hop
    heap,             \* get_forwarding_table: the heap, a set of <<dist, node>>
    visited,          \* get_forwarding_table: set visited
    table,            \* get_forwarding_table: the returned dict
    pc,               \* "idle" | "loop" | "done": position in get_forwarding_table
    current_mode,     \* NetworkController: "view" | "add_node" | "add_edge"
    selected_node,    \* NetworkController: first node of the edge being made
    nearest,          \* what find_nearest_node returned last
    nearest_edge      \* what find_nearest_edge returned last, as a set

model == <<G, node_positions, _edges>>
dijkstra == <<source, distances, previous, next_hop, heap, visited, table, pc>>
controller == <<current_mode, selected_node, nearest>>
vars == <<G, node_positions, _edges, call, exc, disk, source, distances, previous, next_hop,
          heap, visited, table, pc, current_mode, selected_node, nearest, nearest_edge>>

----------------------------------------------------------------------------
(* Bounds *)

\* largest weight a caller passes to add_edge (0 is passed too)
MaxWeight == 2
\* cap on len(_edges) for add_edge
MaxRecs == 2
\* largest coordinate of a position
MaxCoord == 0
\* data lines of an input file
MaxLines == 2

\* the node names, in Python's string order
NameList == <<"A", "B", "C", "D">>
\* the names the callers of the mutations pass
Names == {"A", "B", "C"}
Weights == 0..MaxWeight
Positions == {<<x, 0>> : x \in 0..MaxCoord}

\* Python's order on the node names (str.__lt__), used by the heap's tuples
NameRank(n) == CHOOSE i \in 1..Len(NameList) : NameList[i] = n

----------------------------------------------------------------------------
(* Values *)

None == "None"
\* None where the other values are edges, which are sets of endpoints
NoEdge == {}
EmptyDict == << >>
EmptyGraph == [nodes |-> {}, weight |-> EmptyDict]

\* dict without key k
DictDel(d, k) == [x \in DOMAIN d \ {k} |-> d[x]]
\* dict with d[k] = v
DictSet(d, k, v) == [x \in DOMAIN d \cup {k} |-> IF x = k THEN v ELSE d[x]]
\* dict.update(e)
DictUpdate(d, e) == [x \in DOMAIN d \cup DOMAIN e |-> IF x \in DOMAIN e THEN e[x] ELSE d[x]]

----------------------------------------------------------------------------
(* networkx.Graph, as NetworkModel uses it *)

\* G.add_node(name)
nx_add_node(g, name) == [g EXCEPT !.nodes = @ \cup {name}]

\* G.add_edge(src, dest, weight=weight): creates missing endpoints, and
\* overwrites the weight of an edge that exists (in either endpoint order)
nx_add_edge(g, src, dest, weight) ==
    [nodes |-> g.nodes \cup {src, dest},
     weight |-> DictSet(g.weight, {src, dest}, weight)]

\* G.has_edge(u, v)
nx_has_edge(g, u, v) == {u, v} \in DOMAIN g.weight

\* a remove_node that leaves the graph as it is
nx_remove_node_kept(g, node) == g

\* G.remove_node(node): the node and every edge incident to it
nx_remove_node(g, node) ==
    [nodes |-> g.nodes \ {node},
     weight |-> [e \in {k \in DOMAIN g.weight : node \notin k} |-> g.weight[e]]]

\* G.remove_edge(u, v)
nx_remove_edge(g, u, v) == [g EXCEPT !.weight = DictDel(@, {u, v})]

\* the neighbors of a graph whose edges lead from the lesser name to the
\* greater only
nx_neighbors_directed(g, current) ==
    {n \in g.nodes : {current, n} \in DOMAIN g.weight /\ NameRank(current) < NameRank(n)}

\* G.neighbors(current)
nx_neighbors(g, current) == {n \in g.nodes : {current, n} \in DOMAIN g.weight}

----------------------------------------------------------------------------
(* Graph Store *)

Idle == pc = "idle"

\* NetworkModel.add_node
add_node(name, pos) ==
    /\ Idle
    /\ call' = "add_node"
    /\ G' = nx_add_node(G, name)
    /\ node_positions' = DictSet(node_positions, name, pos)
    /\ exc' = None
    /\ UNCHANGED <<_edges, disk, dijkstra>>

\* The three structures as one value
Model(g, positions, edges) == [G |-> g, node_positions |-> positions, _edges |-> edges]
\* the model becomes m
Becomes(m) ==
    /\ G' = m.G
    /\ node_positions' = m.node_positions
    /\ _edges' = m._edges

\* NetworkModel.add_edge on m: G.add_edge, then _edges.append
AddEdge(m, src, dest, weight) ==
    Model(nx_add_edge(m.G, src, dest, weight),
          m.node_positions,
          Append(m._edges, <<src, dest, weight>>))

\* NetworkModel.add_edge
add_edge(src, dest, weight) ==
    /\ Idle
    /\ call' = "add_edge"
    /\ Len(_edges) < MaxRecs
    /\ Becomes(AddEdge(Model(G, node_positions, _edges), src, dest, weight))
    /\ exc' = None
    /\ UNCHANGED <<disk, dijkstra>>

\* a clear that leaves node_positions as it is
clear_keeps_positions ==
    /\ Idle
    /\ call' = "clear"
    /\ G' = EmptyGraph
    /\ _edges' = <<>>
    /\ exc' = None
    /\ UNCHANGED <<node_positions, disk, dijkstra>>

\* NetworkModel.clear
clear ==
    /\ Idle
    /\ call' = "clear"
    /\ G' = EmptyGraph
    /\ node_positions' = EmptyDict
    /\ _edges' = <<>>
    /\ exc' = None
    /\ UNCHANGED <<disk, dijkstra>>

\* the records delete_node keeps
KeepForNode(node, r) == r[1] # node /\ r[2] # node

\* NetworkModel.delete_node: `del self.node_positions[node]` raises KeyError
\* for a node without a position, after G.remove_node and before the
\* records are filtered
delete_node(node) ==
    /\ Idle
    /\ call' = "delete_node"
    /\ IF node \in G.nodes
       THEN /\ G' = nx_remove_node(G, node)
            /\ IF node \in DOMAIN node_positions
               THEN /\ node_positions' = DictDel(node_positions, node)
                    /\ _edges' = SelectSeq(_edges, LAMBDA r : KeepForNode(node, r))
                    /\ exc' = None
               ELSE /\ exc' = "KeyError"
                    /\ UNCHANGED <<node_positions, _edges>>
       ELSE /\ exc' = None
            /\ UNCHANGED model
    /\ UNCHANGED <<disk, dijkstra>>

\* the filter without the test of the records written as (v, u)
KeepForEdge_sameorder(u, v, r) == ~(r[1] = u /\ r[2] = v)

\* the records delete_edge keeps
KeepForEdge(u, v, r) == ~((r[1] = u /\ r[2] = v) \/ (r[1] = v /\ r[2] = u))

\* NetworkModel.delete_edge
delete_edge(u, v) ==
    /\ Idle
    /\ call' = "delete_edge"
    /\ IF nx_has_edge(G, u, v)
       THEN /\ G' = nx_remove_edge(G, u, v)
            /\ _edges' = SelectSeq(_edges, LAMBDA r : KeepForEdge(u, v, r))
       ELSE UNCHANGED <<G, _edges>>
    /\ exc' = None
    /\ UNCHANGED <<node_positions, disk, dijkstra>>

----------------------------------------------------------------------------
(* Persistence Codec *)

\* A text file is the sequence of its lines, and a line the sequence of the
\* fields between its commas (line.split(',')); a blank line is <<"">>.
BlankLine == <<"">>

\* str(i), for the integers the files hold
Digits == <<"0", "1", "2", "3", "4", "5", "6", "7", "8", "9">>
IntToStr(i) == IF i < 0 THEN "-" \o Digits[1 - i] ELSE Digits[i + 1]
IntLiterals == -9..9
IntText == [i \in IntLiterals |-> IntToStr(i)]

\* s.strip(): the fields written with surrounding blanks, and what is left of them
Padded == [s \in {" C", " 0"} |-> IF s = " C" THEN "C" ELSE "0"]
Strip(s) == IF s \in DOMAIN Padded THEN Padded[s] ELSE s

\* int(s): the integer, or ValueError
ValueError == "ValueError"
IsInt(s) == \E i \in IntLiterals : IntText[i] = Strip(s)
ParseInt(s) == CHOOSE i \in IntLiterals : IntText[i] = Strip(s)

\* f.read().strip().split('\n'): text.strip() drops the blank lines at both
\* ends, and ''.split('\n') is ['']
RECURSIVE DropLeadingBlank(_)
DropLeadingBlank(lines) ==
    IF lines # <<>> /\ Head(lines) = BlankLine
    THEN DropLeadingBlank(Tail(lines)) ELSE lines
RECURSIVE DropTrailingBlank(_)
DropTrailingBlank(lines) ==
    IF lines # <<>> /\ lines[Len(lines)] = BlankLine
    THEN DropTrailingBlank(SubSeq(lines, 1, Len(lines) - 1)) ELSE lines
ReadLines(text) ==
    LET kept == DropTrailingBlank(DropLeadingBlank(text))
    IN  IF kept = <<>> THEN <<BlankLine>> ELSE kept

\* `_, m = map(int, lines[0].split(','))` succeeds
HeaderOk(header) == Len(header) = 2 /\ IsInt(header[1]) /\ IsInt(header[2])

\* lines[1:m+1], a Python slice: a negative stop counts from the end
DataLines(lines, m) ==
    LET n == Len(lines)
        stop == IF m + 1 < 0 THEN (IF n + m + 1 < 0 THEN 0 ELSE n + m + 1)
                ELSE IF m + 1 > n THEN n ELSE m + 1
    IN  SubSeq(lines, 2, stop)

\* `for u, v, w in edges` unpacks the line, and int(w.strip()) parses
EdgeLineOk(line) == Len(line) = 3 /\ IsInt(line[3])

\* the loop `for u, v, w in edges: self.add_edge(...)`: the model when the
\* loop ends, and the exception that ended it
RECURSIVE LoadEdges(_, _)
LoadEdges(m, edges) ==
    IF edges = <<>> THEN [model |-> m, exc |-> None]
    ELSE LET line == Head(edges)
         IN  IF EdgeLineOk(line)
             THEN LoadEdges(AddEdge(m, Strip(line[1]), Strip(line[2]), ParseInt(line[3])),
                            Tail(edges))
             ELSE [model |-> m, exc |-> ValueError]

\* load_from_file without the call of clear(): the edge loop goes on from
\* the model as it is
LoadParse_noclear(text) ==
    LET lines == ReadLines(text)
        kept == Model(G, node_positions, _edges)
    IN  IF ~HeaderOk(lines[1]) THEN [model |-> kept, exc |-> ValueError]
        ELSE LoadEdges(kept, DataLines(lines, ParseInt(lines[1][2])))

\* load_from_file up to the layout: clear(), the header, the edge loop
LoadParse(text) ==
    LET lines == ReadLines(text)
        empty == Model(EmptyGraph, EmptyDict, <<>>)
    IN  IF ~HeaderOk(lines[1]) THEN [model |-> empty, exc |-> ValueError]
        ELSE LoadEdges(empty, DataLines(lines, ParseInt(lines[1][2])))

\* the files a caller opens
Headers == {<<"2", "1">>, <<"3", "2">>, <<"2", "x">>, <<"2">>}
EdgeLines == {<<"A", "B", "1">>, <<"B", " C", " 0">>, <<"A", "B">>, <<"A", "C", "x">>}
RECURSIVE SeqsUpTo(_, _)
SeqsUpTo(S, n) ==
    IF n = 0 THEN {<<>>}
    ELSE LET shorter == SeqsUpTo(S, n - 1)
         IN  shorter \cup {Append(q, x) : q \in shorter, x \in S}
Files == {<<h>> \o body : h \in Headers, body \in SeqsUpTo(EdgeLines, MaxLines)}

\* LoadParse, evaluated once for each of Files
Parsed == [text \in Files |-> LoadParse(text)]
Parse(text) == IF text \in Files THEN Parsed[text] ELSE LoadParse(text)

\* nx.spring_layout(G): some position for every node of G
Layouts(g) == [g.nodes -> Positions]

\* NetworkModel.load_from_file on a file holding `text`
load_from_file(text) ==
    /\ Idle
    /\ call' = "load_from_file"
    /\ LET r == Parse(text)
       IN  /\ exc' = r.exc
           /\ IF r.exc = None /\ r.model.G.nodes # {}
              THEN \E layout \in Layouts(r.model.G) :
                     Becomes([r.model EXCEPT
                                !.node_positions = DictUpdate(@, layout)])
              ELSE Becomes(r.model)
    /\ UNCHANGED <<disk, dijkstra>>

\* the line f"{u},{v},{w}\n"; a name holds no comma, so it is one field
EdgeLine(r) == <<r[1], r[2], IntToStr(r[3])>>

\* what save_to_file writes: the header, then one line for each record
SaveText(g, edges) ==
    <<<<IntToStr(Cardinality(g.nodes)), IntToStr(Len(edges))>>>>
      \o [i \in 1..Len(edges) |-> EdgeLine(edges[i])]

\* NetworkModel.save_to_file
save_to_file ==
    /\ Idle
    /\ call' = "save_to_file"
    /\ disk' = SaveText(G, _edges)
    /\ exc' = None
    /\ UNCHANGED <<model, dijkstra>>

----------------------------------------------------------------------------
(* Forwarding-Table Engine *)

\* The locals of get_forwarding_table.  A key absent from distances stands
\* for float('inf').
Locals(d, p, h, q, v) ==
    [distances |-> d, previous |-> p, next_hop |-> h, heap |-> q, visited |-> v]

\* the locals before the loop: distances[node] = 0, heap = [(0, node)]
DijkstraInit(g, node) ==
    Locals([n \in {node} |-> 0],
           [n \in g.nodes |-> None],
           [n \in g.nodes |-> None],
           {<<0, node>>},
           {})

\* the order of the heap's tuples (dist, name): by distance, then by name
TupleLE(a, b) == a[1] < b[1] \/ (a[1] = b[1] /\ NameRank(a[2]) <= NameRank(b[2]))
\* a pop that takes the greatest tuple of the heap
HeapMin_greatest(q) == CHOOSE a \in q : \A b \in q : TupleLE(b, a)

\* heapq.heappop's result
HeapMin(q) == CHOOSE a \in q : \A b \in q : TupleLE(a, b)

\* tentative_dist < distances[neighbor]
Shorter(tentative_dist, d, neighbor) ==
    neighbor \notin DOMAIN d \/ tentative_dist < d[neighbor]

\* the next hop without the inheritance from the predecessor
NextHopOf_neighbor(node, current, neighbor, h) == neighbor

\* the next hop taken to be the predecessor, not the predecessor's next hop
NextHopOf_previous(node, current, neighbor, h) ==
    IF current = node THEN neighbor ELSE current

\* the next hop a relaxed neighbor gets
NextHopOf(node, current, neighbor, h) ==
    IF current = node THEN neighbor ELSE h[current]

\* a turn of the loop that reads the heap and pops nothing
DijkstraStep_peek(g, node, st) == st

\* One turn of `while heap`: the pop, and for a node not yet visited the
\* whole `for neighbor in self.G.neighbors(current)`.  The turns of the for
\* loop write distinct keys and read none a turn writes, so their order
\* does not show.
DijkstraStep(g, node, st) ==
    LET top == HeapMin(st.heap)
        current_dist == top[1]
        current == top[2]
        popped == st.heap \ {top}
    IN  IF current \in st.visited
        THEN [st EXCEPT !.heap = popped]
        ELSE LET seen == st.visited \cup {current}
                 tentative(n) == current_dist + g.weight[{current, n}]
                 relaxed == {n \in nx_neighbors(g, current) \ seen :
                               Shorter(tentative(n), st.distances, n)}
             IN  Locals([n \in DOMAIN st.distances \cup relaxed |->
                           IF n \in relaxed THEN tentative(n) ELSE st.distances[n]],
                        [n \in DOMAIN st.previous |->
                           IF n \in relaxed THEN current ELSE st.previous[n]],
                        [n \in DOMAIN st.next_hop |->
                           IF n \in relaxed
                           THEN NextHopOf(node, current, n, st.next_hop)
                           ELSE st.next_hop[n]],
                        popped \cup {<<tentative(n), n>> : n \in relaxed},
                        seen)

\* the loop, run until the heap is empty
RECURSIVE DijkstraRun(_, _, _)
DijkstraRun(g, node, st) ==
    IF st.heap = {} THEN st ELSE DijkstraRun(g, node, DijkstraStep(g, node, st))

\* the dict without the test `hop is not None`
BuildTable_unfiltered(node, h) ==
    [dest \in {n \in DOMAIN h : n # node} |-> h[dest]]

\* the dict the method returns after the loop
BuildTable(node, h) ==
    [dest \in {n \in DOMAIN h : n # node /\ h[n] # None} |-> h[dest]]

\* the dict the method returns for a node that is not in G
EarlyReturn == EmptyDict

\* NetworkModel.get_forwarding_table(node), as a function of the graph
ForwardingTable(g, node) ==
    IF node \notin g.nodes THEN EarlyReturn
    ELSE BuildTable(node, DijkstraRun(g, node, DijkstraInit(g, node)).next_hop)

SetLocals(st) ==
    /\ distances' = st.distances
    /\ previous' = st.previous
    /\ next_hop' = st.next_hop
    /\ heap' = st.heap
    /\ visited' = st.visited

NoLocals == Locals(EmptyDict, EmptyDict, EmptyDict, {}, {})

\* get_forwarding_table without `if node not in self.G.nodes: return {}`
get_forwarding_table_unchecked(node) ==
    /\ Idle
    /\ call' = "get_forwarding_table"
    /\ source' = node
    /\ pc' = "loop"
    /\ SetLocals(DijkstraInit(G, node))
    /\ exc' = None
    /\ UNCHANGED <<model, disk, table>>

\* get_forwarding_table is called: the membership test and the initialisation
get_forwarding_table(node) ==
    /\ Idle
    /\ call' = "get_forwarding_table"
    /\ source' = node
    /\ IF node \notin G.nodes
       THEN /\ table' = EarlyReturn
            /\ pc' = "done"
            /\ SetLocals(NoLocals)
       ELSE /\ pc' = "loop"
            /\ SetLocals(DijkstraInit(G, node))
            /\ UNCHANGED table
    /\ exc' = None
    /\ UNCHANGED <<model, disk>>

\* One turn of the while loop.  G.neighbors(current) raises NetworkXError
\* for a node that is not in G.
dijkstra_loop ==
    /\ pc = "loop"
    /\ heap # {}
    /\ IF HeapMin(heap)[2] \notin G.nodes
       THEN /\ exc' = "NetworkXError"
            /\ pc' = "done"
            /\ UNCHANGED <<distances, previous, next_hop, heap, visited>>
       ELSE /\ SetLocals(DijkstraStep(G, source,
                           Locals(distances, previous, next_hop, heap, visited)))
            /\ UNCHANGED <<exc, pc>>
    /\ UNCHANGED <<model, call, disk, source, table>>

\* the loop ends and the table is returned
dijkstra_return ==
    /\ pc = "loop"
    /\ heap = {}
    /\ table' = BuildTable(source, next_hop)
    /\ pc' = "done"
    /\ UNCHANGED <<model, call, exc, disk, source, distances, previous, next_hop,
                   heap, visited>>

\* the caller has the table; the locals are gone
caller_resumes ==
    /\ pc = "done"
    /\ pc' = "idle"
    /\ source' = None
    /\ table' = EmptyDict
    /\ SetLocals(NoLocals)
    /\ UNCHANGED <<model, call, exc, disk>>

----------------------------------------------------------------------------
(* Controller (src/controller/network_controller.py) *)

\* A coordinate is a whole number of tenths of a unit, so that a squared
\* distance is a whole number of hundredths.
\* farthest point of the canvas that is clicked
MaxClick == 4
\* event.xdata, event.ydata: on a node, a tenth of a unit from it, far from it
Clicks == {<<0, 0>>, <<1, 0>>, <<MaxClick, 0>>}

\* (nx - x)**2 + (ny - y)**2, in hundredths
SqDist(p, q) == (p[1] - q[1]) * (p[1] - q[1]) + (p[2] - q[2]) * (p[2] - q[2])

\* `dist < 0.1`: the threshold of find_nearest_node, in hundredths
NodeThreshold == 10

\* NetworkController.find_nearest_node: the loop keeps the first node of
\* node_positions.items() with the least dist below the threshold.  The
\* order of the dict is not part of the state: of the nodes at the least
\* dist any may be the first.
FindNearestNode(positions, p) ==
    LET close == {n \in DOMAIN positions : SqDist(positions[n], p) < NodeThreshold}
    IN  IF close = {} THEN {None}
        ELSE {n \in close :
                \A m \in close : SqDist(positions[n], p) <= SqDist(positions[m], p)}

find_nearest_node(p) == nearest' \in FindNearestNode(node_positions, p)

\* largest weight typed into the weight dialog
MaxDialogWeight == 1
\* QInputDialog.getInt(..., 1, 1, 100): the weights the dialog returns
DialogWeights == 1..MaxDialogWeight
\* QInputDialog.getText: the names typed into the name dialog
DialogNames == {"A", "B"}
\* QFileDialog.getOpenFileName: the files opened, of one data line at most
DialogFiles == {text \in Files : Len(text) <= 2}

\* NetworkController.update_mode
update_mode(mode) ==
    /\ Idle
    /\ current_mode' = mode
    /\ UNCHANGED <<model, call, exc, disk, dijkstra, selected_node, nearest,
                   nearest_edge>>

\* NetworkController.add_node: the dialog gives a name, or is cancelled
controller_add_node(p) ==
    \/ \E name \in DialogNames : add_node(name, p)
    \/ UNCHANGED <<model, call, exc, disk, dijkstra>>

\* NetworkController.handle_edge_creation
handle_edge_creation(p) ==
    /\ find_nearest_node(p)
    /\ IF nearest' = None
       THEN UNCHANGED <<model, call, exc, disk, dijkstra, selected_node>>
       ELSE IF selected_node = None
       THEN /\ selected_node' = nearest'
            /\ UNCHANGED <<model, call, exc, disk, dijkstra>>
       ELSE \/ /\ \E weight \in DialogWeights :
                    add_edge(selected_node, nearest', weight)
               /\ selected_node' = None
            \/ UNCHANGED <<model, call, exc, disk, dijkstra, selected_node>>

\* NetworkController.show_node_info: the table goes to the view
show_node_info(p) ==
    /\ find_nearest_node(p)
    /\ IF nearest' = None
       THEN UNCHANGED <<call, exc>>
       ELSE call' = "get_forwarding_table" /\ exc' = None
    /\ UNCHANGED <<model, disk, dijkstra, selected_node>>

\* NetworkController.handle_canvas_click on a click inside the axes
handle_canvas_click(p) ==
    /\ Idle
    /\ CASE current_mode = "add_node" ->
               controller_add_node(p) /\ UNCHANGED <<selected_node, nearest>>
         [] current_mode = "add_edge" -> handle_edge_creation(p)
         [] current_mode = "view" -> show_node_info(p)
    /\ UNCHANGED <<current_mode, nearest_edge>>

\* NetworkController.load_file: the exception of the model is caught
load_file(text) == load_from_file(text) /\ UNCHANGED <<controller, nearest_edge>>

\* NetworkController.clear_graph
clear_graph == clear /\ UNCHANGED <<controller, nearest_edge>>

NextUI ==
    \/ \E mode \in {"view", "add_node", "add_edge"} : update_mode(mode)
    \/ \E p \in Clicks : handle_canvas_click(p)
    \/ \E text \in DialogFiles : load_file(text)
    \/ clear_graph

----------------------------------------------------------------------------
\* NetworkController.__init__, and no query made yet
InitController ==
    /\ current_mode = "view"
    /\ selected_node = None
    /\ nearest = None
    /\ nearest_edge = NoEdge

\* a method of NetworkModel called by a caller of its own: the controller
\* is not stepped
Direct == UNCHANGED <<controller, nearest_edge>>

Init ==
    /\ G = EmptyGraph
    /\ node_positions = EmptyDict
    /\ _edges = <<>>
    /\ call = None
    /\ exc = None
    /\ disk = None
    /\ source = None
    /\ distances = EmptyDict
    /\ previous = EmptyDict
    /\ next_hop = EmptyDict
    /\ heap = {}
    /\ visited = {}
    /\ table = EmptyDict
    /\ pc = "idle"
    /\ InitController

Next ==
    \/ Direct /\ \E name \in Names, pos \in Positions : add_node(name, pos)
    \/ Direct /\ \E src \in Names, dest \in Names, weight \in Weights :
                    add_edge(src, dest, weight)
    \/ Direct /\ clear
    \/ Direct /\ \E node \in Names : delete_node(node)
    \/ Direct /\ \E u \in Names, v \in Names : delete_edge(u, v)
    \/ Direct /\ \E text \in Files : load_from_file(text)

Spec == Init /\ [][Next]_vars

\* A model built by the mutations, saved, and loaded from the saved file
NextIO ==
    \/ /\ disk = None
       /\ Direct
       /\ \/ \E name \in Names, pos \in Positions : add_node(name, pos)
          \/ \E src \in Names, dest \in Names, weight \in Weights : add_edge(src, dest, weight)
          \/ clear
          \/ \E node \in Names : delete_node(node)
          \/ \E u \in Names, v \in Names : delete_edge(u, v)
    \/ Direct /\ save_to_file
    \/ Direct /\ disk # None /\ load_from_file(disk)

SpecIO == Init /\ [][NextIO]_vars

\* The program as its window drives it
SpecUI == Init /\ [][NextUI]_vars

----------------------------------------------------------------------------
(* The forwarding-table engine on every small topology *)

\* largest weight of the topologies the engine is run on
FTMaxWeight == 3
FTNames == {"A", "B", "C", "D"}
FTPairs == {e \in SUBSET FTNames : Cardinality(e) = 2}

\* a set of edges as the records add_edge appends, in some order
RECURSIVE RecordsOf(_)
RecordsOf(w) ==
    IF DOMAIN w = {} THEN <<>>
    ELSE LET e == CHOOSE k \in DOMAIN w : TRUE
             u == CHOOSE x \in e : \A y \in e : NameRank(x) <= NameRank(y)
             v == CHOOSE y \in e : \A x \in e : NameRank(x) <= NameRank(y)
         IN  <<<<u, v, w[e]>>>> \o RecordsOf(DictDel(w, e))

\* The model after add_node for each of FTNames and add_edge for each edge
\* of some graph on them (no edge from a node to itself; weight 0 included)
InitFT ==
    /\ \E E \in SUBSET FTPairs : \E w \in [E -> 0..FTMaxWeight] :
         /\ G = [nodes |-> FTNames, weight |-> w]
         /\ _edges = RecordsOf(w)
    /\ node_positions = [n \in FTNames |-> <<0, 0>>]
    /\ call = None
    /\ exc = None
    /\ disk = None
    /\ source = None
    /\ distances = EmptyDict
    /\ previous = EmptyDict
    /\ next_hop = EmptyDict
    /\ heap = {}
    /\ visited = {}
    /\ table = EmptyDict
    /\ pc = "idle"
    /\ InitController

NextFT ==
    \/ Direct /\ \E node \in FTNames : delete_node(node)
    \/ Direct /\ \E node \in FTNames : get_forwarding_table(node)
    \/ Direct /\ dijkstra_loop
    \/ Direct /\ dijkstra_return
    \/ Direct /\ caller_resumes

SpecFT == InitFT /\ [][NextFT]_vars

----------------------------------------------------------------------------
(* The search run to its end, on the topologies with a light and a heavy
   weight *)

\* The model after add_node for each of FTNames and add_edge for each edge
\* of some graph on them, with the weights 1 and FTMaxWeight
InitRun ==
    /\ \E E \in SUBSET FTPairs : \E w \in [E -> {1, FTMaxWeight}] :
         /\ G = [nodes |-> FTNames, weight |-> w]
         /\ _edges = RecordsOf(w)
    /\ node_positions = [n \in FTNames |-> <<0, 0>>]
    /\ call = None
    /\ exc = None
    /\ disk = None
    /\ source = None
    /\ distances = EmptyDict
    /\ previous = EmptyDict
    /\ next_hop = EmptyDict
    /\ heap = {}
    /\ visited = {}
    /\ table = EmptyDict
    /\ pc = "idle"
    /\ InitController

NextRun ==
    \/ Direct /\ \E node \in FTNames : get_forwarding_table(node)
    \/ Direct /\ dijkstra_loop
    \/ Direct /\ dijkstra_return
    \/ Direct /\ caller_resumes

\* The interpreter goes on with a call that has begun: each turn of the
\* loop, and the return after it, is taken when it can be
SpecRun ==
    /\ InitRun /\ [][NextRun]_vars
    /\ WF_vars(Direct /\ dijkstra_loop)
    /\ WF_vars(Direct /\ dijkstra_return)

----------------------------------------------------------------------------
(* load_from_file called on every small topology *)

\* most edges of a topology load_from_file is called on
MaxLoadEdges == 3

\* The model after add_node for each of FTNames and add_edge, once, for each
\* edge of some graph on them, with weights 1..MaxWeight
InitLoad ==
    /\ \E E \in {F \in SUBSET FTPairs : Cardinality(F) <= MaxLoadEdges} :
         \E w \in [E -> 1..MaxWeight] :
           /\ G = [nodes |-> FTNames, weight |-> w]
           /\ _edges = RecordsOf(w)
    /\ node_positions = [n \in FTNames |-> <<0, 0>>]
    /\ call = None
    /\ exc = None
    /\ disk = None
    /\ source = None
    /\ distances = EmptyDict
    /\ previous = EmptyDict
    /\ next_hop = EmptyDict
    /\ heap = {}
    /\ visited = {}
    /\ table = EmptyDict
    /\ pc = "idle"
    /\ InitController

NextLoad == Direct /\ \E text \in Files : load_from_file(text)

SpecLoad == InitLoad /\ [][NextLoad]_vars

----------------------------------------------------------------------------
(* Spatial query: find_nearest_edge on every small placed topology *)

\* length of the sides of the triangle the nodes are placed on, in tenths
GeoSpan == 10
\* the places of the nodes
GeoPositions == {<<0, 0>>, <<GeoSpan, 0>>, <<0, GeoSpan>>}
\* the points asked for: inside the triangle, and beyond its corner
GeoQueries == {<<5, 5>>, <<GeoSpan + 2, 0>>}
\* `threshold=1.0`, in tenths
DefaultThreshold == 10
\* the thresholds passed: the default and half of it
GeoThresholds == {DefaultThreshold, DefaultThreshold \div 2}

\* NetworkModel._distance_to_segment, squared, in hundredths: the fraction
\* <<numerator, denominator>>.  math.hypot is increasing, so that the
\* squares compare as the distances do.
DistanceToSegment(p, a, b) ==
    IF a = b THEN <<SqDist(p, a), 1>>
    ELSE LET seg_length_sq == SqDist(a, b)
             dot == (p[1] - a[1]) * (b[1] - a[1]) + (p[2] - a[2]) * (b[2] - a[2])
         IN  IF dot <= 0 THEN <<SqDist(p, a), 1>>
             ELSE IF dot >= seg_length_sq THEN <<SqDist(p, b), 1>>
             ELSE <<SqDist(p, a) * seg_length_sq - dot * dot, seg_length_sq>>

\* distance < other, on the squares
Nearer(d, e) == d[1] * e[2] < e[1] * d[2]
\* distance < threshold, for a threshold above 0
Within(d, threshold) == d[1] < threshold * threshold * d[2]

\* the distance of the edge e of G; a self-loop has one endpoint twice
EdgeDistance(positions, e, p) ==
    LET u == CHOOSE x \in e : TRUE
        v == IF e = {u} THEN u ELSE CHOOSE x \in e : x # u
    IN  DistanceToSegment(p, positions[u], positions[v])

\* the edges find_nearest_edge can return: the loop keeps the first edge of
\* G.edges() with the least distance below the threshold.  The order of
\* G.edges() is not part of the state: of the edges at the least distance
\* any may be the first.
FindNearestEdge(g, positions, p, threshold) ==
    LET close == {e \in DOMAIN g.weight :
                    Within(EdgeDistance(positions, e, p), threshold)}
    IN  IF close = {} THEN {NoEdge}
        ELSE {e \in close :
                \A f \in close : ~Nearer(EdgeDistance(positions, f, p),
                                          EdgeDistance(positions, e, p))}

\* NetworkModel.find_nearest_edge: node_positions[u] raises KeyError for an
\* endpoint without a position, whichever edge the loop meets it at
find_nearest_edge(p, threshold) ==
    /\ Idle
    /\ call' = "find_nearest_edge"
    /\ IF \E e \in DOMAIN G.weight : ~(e \subseteq DOMAIN node_positions)
       THEN /\ exc' = "KeyError"
            /\ UNCHANGED nearest_edge
       ELSE /\ exc' = None
            /\ nearest_edge' \in FindNearestEdge(G, node_positions, p, threshold)
    /\ UNCHANGED <<model, disk, dijkstra, controller>>

\* The model after add_node for some of Names and add_edge, with weight 1,
\* for each edge of some graph on Names
InitGeo ==
    /\ \E E \in SUBSET {e \in SUBSET Names : Cardinality(e) = 2} :
         /\ G = [nodes |-> Names, weight |-> [e \in E |-> 1]]
         /\ _edges = RecordsOf([e \in E |-> 1])
    /\ \E placed \in SUBSET Names : node_positions \in [placed -> GeoPositions]
    /\ call = None
    /\ exc = None
    /\ disk = None
    /\ source = None
    /\ distances = EmptyDict
    /\ previous = EmptyDict
    /\ next_hop = EmptyDict
    /\ heap = {}
    /\ visited = {}
    /\ table = EmptyDict
    /\ pc = "idle"
    /\ InitController

NextGeo ==
    \E p \in GeoQueries, threshold \in GeoThresholds : find_nearest_edge(p, threshold)

SpecGeo == InitGeo /\ [][NextGeo]_vars

----------------------------------------------------------------------------
(* What the claims speak of, defined from the graph alone *)

\* the nodes joined to the nodes of S by some path
RECURSIVE Connected(_, _)
Connected(g, S) ==
    LET T == S \cup {n \in g.nodes : \E m \in S : {m, n} \in DOMAIN g.weight}
    IN  IF T = S THEN S ELSE Connected(g, T)

\* the least cost of a walk of exactly k edges from s to each node that has one
RECURSIVE WalkCost(_, _, _)
WalkCost(g, s, k) ==
    IF k = 0 THEN [n \in {s} |-> 0]
    ELSE LET before == WalkCost(g, s, k - 1)
             into(n) == {before[m] + g.weight[{m, n}] :
                           m \in {x \in DOMAIN before : {x, n} \in DOMAIN g.weight}}
         IN  [n \in {x \in g.nodes : into(x) # {}} |->
                CHOOSE c \in into(n) : \A c2 \in into(n) : c <= c2]

\* WalkCost for every number of edges a path of g can have
WalkCosts(g, s) == [k \in 0..Cardinality(g.nodes) - 1 |-> WalkCost(g, s, k)]

\* the least cost of a path to d, which some walk of L reaches
Cost(L, d) ==
    LET costs == {L[k][d] : k \in {j \in DOMAIN L : d \in DOMAIN L[j]}}
    IN  CHOOSE c \in costs : \A c2 \in costs : c <= c2

\* the numbers of edges of the least-cost paths to d
ShortestHops(L, d) ==
    {k \in DOMAIN L : d \in DOMAIN L[k] /\ L[k][d] = Cost(L, d)}

WeightsPositive(g) == \A e \in DOMAIN g.weight : g.weight[e] >= 1

\* the forwarding table of each node: the one just returned for source, and
\* the ones the method computes for the others
Tables == [c \in G.nodes |-> IF c = source THEN table ELSE ForwardingTable(G, c)]

\* the hops of the chain c, T[c][d], T[T[c][d]][d], ... up to d; -1 when it
\* meets a node without an entry for d or a node of `seen`
RECURSIVE ChainHops(_, _, _, _)
ChainHops(T, c, d, seen) ==
    IF c = d THEN 0
    ELSE IF d \notin DOMAIN T[c] \/ T[c][d] \in seen \/ T[c][d] \notin DOMAIN T THEN -1
    ELSE LET rest == ChainHops(T, T[c][d], d, seen \cup {T[c][d]})
         IN  IF rest = -1 THEN -1 ELSE rest + 1

----------------------------------------------------------------------------
(* Claims *)

\* the records of _edges that name node n
RecordsAt(edges, n) == {i \in 1..Len(edges) : edges[i][1] = n \/ edges[i][2] = n}
\* the records of _edges for the pair e
RecordsFor(edges, e) == {i \in 1..Len(edges) : {edges[i][1], edges[i][2]} = e}

\* C1: the endpoints of every edge, of the graph and of the record list,
\* are nodes, and every node has a position.  (G.nodes is a set: a name is
\* in it once.)
C1_TopologyInvariant ==
    /\ \A e \in DOMAIN G.weight : e \subseteq G.nodes
    /\ \A i \in 1..Len(_edges) : {_edges[i][1], _edges[i][2]} \subseteq G.nodes
    /\ DOMAIN node_positions = G.nodes

\* C2: with weights >= 1, following the next hops from the source of a
\* returned table reaches every destination joined to it, without repeating
\* a node, in as many hops as some least-cost path has edges.
C2_NextHopChain ==
    (pc = "done" /\ source \in G.nodes /\ WeightsPositive(G)) =>
        LET T == Tables
            L == WalkCosts(G, source)
        IN  \A d \in Connected(G, {source}) \ {source} :
                ChainHops(T, source, d, {source}) \in ShortestHops(L, d)

\* a table is returned in which a neighbour of the source is reached through
\* another node, and a destination two hops away through the same node
C2_Witness ==
    /\ pc = "done" /\ source \in G.nodes /\ WeightsPositive(G)
    /\ \E d \in DOMAIN table :
         /\ {source, d} \in DOMAIN G.weight
         /\ table[d] # d
         /\ ChainHops(Tables, source, d, {source}) = 2

\* C3: the keys of the table returned for a member source are the nodes
\* joined to it by a path, without the source, and each maps to a node.
C3_KeysAreReachable ==
    (pc = "done" /\ source \in G.nodes) =>
        /\ DOMAIN table = Connected(G, {source}) \ {source}
        /\ \A d \in DOMAIN table : table[d] \in G.nodes

\* a table is returned with a key that is no neighbour of the source, while
\* another node of the graph is not joined to the source
C3_Witness ==
    /\ pc = "done" /\ source \in G.nodes
    /\ \E d \in DOMAIN table : {source, d} \notin DOMAIN G.weight
    /\ \E n \in G.nodes : n \notin Connected(G, {source})

\* C4: the record list holds one record for each edge of the graph, with
\* the edge's weight, and no record for a pair without an edge.
C4_EdgeViewsInSync ==
    /\ \A e \in DOMAIN G.weight : Cardinality(RecordsFor(_edges, e)) = 1
    /\ \A i \in 1..Len(_edges) :
         LET e == {_edges[i][1], _edges[i][2]}
         IN  e \in DOMAIN G.weight /\ G.weight[e] = _edges[i][3]

\* what the claim C5 says of a call delete_node(n)
DeleteNodeContract(n) ==
    IF n \in G.nodes
    THEN /\ G'.nodes = G.nodes \ {n}
         /\ DOMAIN G'.weight = {e \in DOMAIN G.weight : n \notin e}
         /\ \A e \in DOMAIN G'.weight : G'.weight[e] = G.weight[e]
         /\ DOMAIN node_positions' = DOMAIN node_positions \ {n}
         /\ \A m \in DOMAIN node_positions' : node_positions'[m] = node_positions[m]
         /\ _edges' = SelectSeq(_edges, LAMBDA r : r[1] # n /\ r[2] # n)
         /\ exc' = None
    ELSE UNCHANGED model /\ exc' = None

\* C5: delete_node removes the node, its position and its edges from the
\* three structures and nothing else, and raises nothing.
C5_DeleteNode ==
    [][\A n \in Names : delete_node(n) => DeleteNodeContract(n)]_vars

\* a step of a mutation leaves the three structures all as they were or all
\* as the completed call makes them
AtomicStep ==
    /\ \A n \in Names, p \in Positions :
         add_node(n, p) =>
            \/ UNCHANGED model
            \/ /\ n \in G'.nodes
               /\ n \in DOMAIN node_positions' /\ node_positions'[n] = p
    /\ \A u \in Names, v \in Names, w \in Weights :
         add_edge(u, v, w) =>
            \/ UNCHANGED model
            \/ /\ {u, v} \in DOMAIN G'.weight /\ G'.weight[{u, v}] = w
               /\ _edges' # <<>> /\ _edges'[Len(_edges')] = <<u, v, w>>
    /\ \A n \in Names :
         delete_node(n) =>
            \/ UNCHANGED model
            \/ /\ n \notin G'.nodes
               /\ n \notin DOMAIN node_positions'
               /\ RecordsAt(_edges', n) = {}
    /\ \A u \in Names, v \in Names :
         delete_edge(u, v) =>
            \/ UNCHANGED model
            \/ /\ {u, v} \notin DOMAIN G'.weight
               /\ RecordsFor(_edges', {u, v}) = {}
    /\ clear =>
            \/ UNCHANGED model
            \/ G'.nodes = {} /\ node_positions' = EmptyDict /\ _edges' = <<>>

\* C6: no mutation leaves the three structures partly updated.
C6_Atomic == [][AtomicStep]_vars

\* C7: a load of the file that save_to_file has just written from the model
\* gives back the model's nodes and its weighted edges.
C7_SaveLoadRoundTrip ==
    [][(disk # None /\ disk = SaveText(G, _edges) /\ load_from_file(disk)) =>
           (G'.nodes = G.nodes /\ G'.weight = G.weight)]_vars

\* the header is two integers
HeaderIsTwoInts(text) == Len(text[1]) = 2 /\ IsInt(text[1][1]) /\ IsInt(text[1][2])
\* a data line is three fields, the third an integer
LineIsEdge(line) == Len(line) = 3 /\ IsInt(line[3])
\* what the claim C8 calls a file that must not load
Malformed(text) ==
    \/ ~HeaderIsTwoInts(text)
    \/ /\ HeaderIsTwoInts(text)
       /\ LET edge_count == ParseInt(text[1][2])
          IN  \/ Len(text) - 1 < edge_count
              \/ \E k \in 2..Len(text) : k - 1 <= edge_count /\ ~LineIsEdge(text[k])

\* C8: a load of a malformed file raises the format error.
C8_MalformedFileFails ==
    [][\A text \in Files :
          (Malformed(text) /\ load_from_file(text)) => exc' = ValueError]_vars

\* C9: every edge of the graph and every record has a weight >= 1.
C9_WeightsAtLeastOne ==
    /\ WeightsPositive(G)
    /\ \A i \in 1..Len(_edges) : _edges[i][3] >= 1

\* C10: the call for a name that is not a node returns an empty table and
\* raises nothing.
C10_NonMemberEmpty ==
    (pc = "done" /\ source \notin G.nodes) => (table = EmptyDict /\ exc = None)

\* the call has returned for a name deleted from a graph that has other nodes
C10_Witness ==
    /\ pc = "done" /\ source \notin G.nodes /\ G.nodes # {}
    /\ source \notin DOMAIN node_positions

\* what the claim C11 says of a call delete_edge(u, v)
DeleteEdgeContract(u, v) ==
    /\ IF {u, v} \in DOMAIN G.weight
       THEN /\ DOMAIN G'.weight = DOMAIN G.weight \ {{u, v}}
            /\ \A e \in DOMAIN G'.weight : G'.weight[e] = G.weight[e]
            /\ _edges' = SelectSeq(_edges, LAMBDA r : {r[1], r[2]} # {u, v})
       ELSE UNCHANGED <<G, _edges>>
    /\ G'.nodes = G.nodes
    /\ node_positions' = node_positions
    /\ exc' = None

\* C11: delete_edge(u, v) takes the edge of the pair out of the graph and
\* every record of the pair, written in either order, out of the record
\* list; the other edges, their weights, the order of the other records, the
\* nodes and the positions stay; without an edge of the pair in the graph
\* nothing changes.
C11_DeleteEdge ==
    [][\A u \in Names, v \in Names : delete_edge(u, v) => DeleteEdgeContract(u, v)]_vars

\* after delete_edge the three nodes that add_edge made are still there and
\* one edge of the two is left, with its record
C11_Witness ==
    /\ call = "delete_edge"
    /\ G.nodes = Names /\ node_positions = EmptyDict
    /\ Cardinality(DOMAIN G.weight) = 1
    /\ Len(_edges) = 1 /\ {_edges[1][1], _edges[1][2]} \in DOMAIN G.weight

\* the file of the scenario of C12
ScenarioFile == <<<<"2", "1">>, <<"A", "B", "5">>>>

\* what the claim C12 says of a call save_to_file
SaveContract ==
    /\ disk'[1] = <<IntToStr(Cardinality(G.nodes)),
                    IntToStr(Cardinality(DOMAIN G.weight))>>
    /\ Len(disk') - 1 = Cardinality(DOMAIN G.weight)
    /\ Len(disk') - 1 = Len(_edges)
    /\ \A i \in 1..Len(_edges) :
         disk'[i + 1] = <<_edges[i][1], _edges[i][2], IntToStr(_edges[i][3])>>
    /\ LET loaded == LoadParse(ScenarioFile).model
       IN  SaveText(loaded.G, loaded._edges) = ScenarioFile

\* C12: save_to_file writes a header with the number of nodes and the number
\* of edges of the graph, then one line for each edge in the order of the
\* calls of add_edge, so that the header's edge count is the number of edges
\* of the graph and the number of lines after it; the file "2,1 / A,B,5"
\* loaded and saved is written back as it was.
C12_SaveFormat == [][save_to_file => SaveContract]_vars

\* the data lines the loop of load_from_file goes through before the one it
\* fails on: none when the header fails
LinesBeforeFailure(text) ==
    IF ~HeaderIsTwoInts(text) THEN <<>>
    ELSE LET k == CHOOSE j \in 1..Len(text) - 1 :
                    /\ ~LineIsEdge(text[j + 1])
                    /\ \A i \in 1..j - 1 : LineIsEdge(text[i + 1])
         IN  SubSeq(text, 2, k)

\* the record a well-formed data line stands for
RecordOfLine(line) == <<Strip(line[1]), Strip(line[2]), ParseInt(line[3])>>

\* what the claim C13 says is left by a load_from_file(text) that fails
AfterFailedLoad(text) ==
    LET done == LinesBeforeFailure(text)
        recs == [i \in 1..Len(done) |-> RecordOfLine(done[i])]
        pairs == {{recs[i][1], recs[i][2]} : i \in 1..Len(recs)}
        last(e) == CHOOSE i \in RecordsFor(recs, e) :
                       \A j \in RecordsFor(recs, e) : j <= i
    IN  [records |-> recs,
         nodes |-> UNION pairs,
         weight |-> [e \in pairs |-> recs[last(e)][3]]]

\* the files of Files that do not load, each with what the claim says is left
FailingFiles == {text \in Files : Parse(text).exc = ValueError}
Leftover == [text \in FailingFiles |-> AfterFailedLoad(text)]

FailedLoadContract(text) ==
    /\ _edges' = Leftover[text].records
    /\ G'.nodes = Leftover[text].nodes
    /\ G'.weight = Leftover[text].weight
    /\ node_positions' = EmptyDict

\* C13: a load_from_file that fails on data line k leaves nothing of the
\* model it was called on: the records are those of the data lines 1..k-1
\* in the order of the file, the graph has their nodes and their edges with
\* the weights last given, and no node has a position.
C13_FailedLoadKeepsPrefix ==
    [][(call' = "load_from_file" /\ exc' = ValueError) =>
          \A text \in FailingFiles :
              load_from_file(text) => FailedLoadContract(text)]_vars

\* a load has failed on its second data line and the edge of the first is
\* there, without positions
C13_Witness ==
    /\ call = "load_from_file" /\ exc = ValueError
    /\ Len(_edges) = 1 /\ Cardinality(G.nodes) = 2
    /\ node_positions = EmptyDict

\* the scenario of C12 taken alone
C12_Scenario ==
    LET loaded == LoadParse(ScenarioFile).model
    IN  SaveText(loaded.G, loaded._edges) = ScenarioFile

\* the least squared distance from p to a position, in hundredths
LeastSqDist(positions, p) ==
    LET ds == {SqDist(positions[n], p) : n \in DOMAIN positions}
    IN  CHOOSE d \in ds : \A e \in ds : d <= e

\* what the claim C14 says find_nearest_node(x, y) returns; 0.01 is one
\* hundredth
NearestNodeContract(p) ==
    IF node_positions = EmptyDict \/ LeastSqDist(node_positions, p) >= 1
    THEN nearest' = None
    ELSE /\ nearest' \in DOMAIN node_positions
         /\ SqDist(node_positions[nearest'], p) = LeastSqDist(node_positions, p)

\* C14: find_nearest_node returns a node at the least squared distance from
\* the click when that distance is below 0.01, and None when the least
\* squared distance is 0.01 or more or when no node has a position.
C14_FindNearestNode ==
    [][\A p \in Clicks :
          (handle_canvas_click(p) /\ current_mode # "add_node") =>
              NearestNodeContract(p)]_vars

\* C15: the graph is simple: every edge of G joins two distinct nodes.  (G
\* maps an unordered pair to one weight, as nx.Graph does, so that a pair
\* has one edge at most and (u, v) and (v, u) are the same edge.)
C15_SimpleGraph == \A e \in DOMAIN G.weight : Cardinality(e) = 2

\* what the claim C16 says find_nearest_edge(x, y, threshold) returns; the
\* distance of an edge is measured between the positions of its endpoints
NearestEdgeContract(p, threshold) ==
    /\ exc' = None
    /\ (\A e \in DOMAIN G.weight : e \subseteq DOMAIN node_positions) =>
         LET d(e) == EdgeDistance(node_positions, e, p)
         IN  IF \A e \in DOMAIN G.weight : ~Within(d(e), threshold)
             THEN nearest_edge' = NoEdge
             ELSE /\ nearest_edge' \in DOMAIN G.weight
                  /\ Within(d(nearest_edge'), threshold)
                  /\ \A f \in DOMAIN G.weight : ~Nearer(d(f), d(nearest_edge'))

\* C16: find_nearest_edge returns, on every topology the mutations make,
\* the edges whose endpoints add_edge alone made included: an edge whose
\* distance is below the threshold and is the least of all, when there is
\* one; None when no edge is below the threshold.
C16_FindNearestEdge ==
    [][\A p \in GeoQueries, threshold \in GeoThresholds :
          find_nearest_edge(p, threshold) => NearestEdgeContract(p, threshold)]_vars

\* the part of C16 on the topologies whose edges have placed endpoints
C16_PlacedEdges ==
    [][\A p \in GeoQueries, threshold \in GeoThresholds :
          (find_nearest_edge(p, threshold) /\ exc' = None) =>
              NearestEdgeContract(p, threshold)]_vars

\* what the claim C17 says of a step of the search: visited is the set of
\* the finalized nodes
FinalizeStep ==
    (pc = "loop" /\ WeightsPositive(G)) =>
        /\ visited \subseteq visited'
        /\ Cardinality(visited' \ visited) <= 1
        /\ \A v \in visited :
             /\ distances'[v] = distances[v]
             /\ next_hop'[v] = next_hop[v]
        /\ \A c \in visited' \ visited :
             /\ \A v \in visited : distances[v] <= distances[c]
             /\ distances[c] = Cost(WalkCosts(G, source), c)
             /\ distances'[c] = distances[c]
             /\ next_hop'[c] = next_hop[c]
             /\ (c # source /\ distances' # distances) => next_hop[c] # None

\* C17: in a search on a graph with weights >= 1, a node is finalized once,
\* not before the nodes nearer to the source, at a distance that is the
\* least cost of a path from the source and that stays; a finalized node
\* other than the source that relaxes a neighbour has a next hop, and the
\* next hop of a finalized node stays.
C17_FinalizedInOrder == [][FinalizeStep]_vars

\* a search on a graph with weights >= 1 has finalized a node reached
\* through a finalized node other than the source, and holds a stale entry
\* for a finalized node
C17_Witness ==
    /\ pc = "loop" /\ WeightsPositive(G)
    /\ \E n \in visited : previous[n] \in visited \ {source}
    /\ \E a \in heap : a[2] \in visited

\* C18: with weights >= 1, each entry d -> h of a returned table has h a
\* neighbour of the source, on a least-cost path to d:
\* cost(s, d) = weight(s, h) + cost(h, d).
C18_FirstHopOnShortestPath ==
    (pc = "done" /\ source \in G.nodes /\ WeightsPositive(G)) =>
        LET L == WalkCosts(G, source)
        IN  \A d \in DOMAIN table :
              LET h == table[d]
              IN  /\ {source, h} \in DOMAIN G.weight
                  /\ h # source
                  /\ Cost(L, d) = G.weight[{source, h}] + Cost(WalkCosts(G, h), d)

\* a table is returned in which a neighbour of the source is reached through
\* another neighbour, and another neighbour through itself
C18_Witness ==
    /\ pc = "done" /\ source \in G.nodes /\ WeightsPositive(G)
    /\ \E d \in DOMAIN table : {source, d} \in DOMAIN G.weight /\ table[d] # d
    /\ \E d \in DOMAIN table : table[d] = d

\* the edges of the chain A-B-C with weights 1
ChainABC == [e \in {{"A", "B"}, {"B", "C"}} |-> 1]

\* what the claim C19 says of the tables after a call delete_node(x)
FreshTables(x) ==
    LET without == [nodes |-> G.nodes \ {x},
                    weight |-> [e \in {k \in DOMAIN G.weight : x \notin k} |->
                                  G.weight[e]]]
    IN  /\ \A s \in FTNames \ {x} :
             LET T == ForwardingTable(G', s)
                 joined == Connected(without, {s})
             IN  /\ x \notin DOMAIN T
                 /\ \A d \in DOMAIN T : T[d] # x
                 /\ DOMAIN T \subseteq joined
        /\ (G.weight = ChainABC /\ x = "B") =>
             /\ ForwardingTable(G, "A") = [d \in {"B", "C"} |-> "B"]
             /\ ForwardingTable(G', "A") = EmptyDict

\* C19: after delete_node(x) the table of every source is that of the graph
\* as it is now: x is no destination and no next hop in it, and a node that
\* every path reached through x is no destination; on the chain A-B-C with
\* weights 1 the table of A is {B: B, C: B} before delete_node(B) and {} after.
C19_TableIsFresh ==
    [][\A x \in FTNames : delete_node(x) => FreshTables(x)]_vars

\* B has been deleted and the search from A, run afterwards, has returned
\* an empty table though C is still a node
C19_Witness ==
    /\ pc = "done" /\ source = "A"
    /\ G.nodes = FTNames \ {"B"}
    /\ table = EmptyDict

\* what the claim C20 says of a turn of the loop: an entry leaves the heap;
\* the entry of a finalized node is dropped and nothing else changes; an
\* entry is pushed only for a node whose distance the turn has lowered
SearchTurn ==
    (pc = "loop" /\ heap # {}) =>
        /\ \E popped \in heap :
             /\ popped \notin heap'
             /\ heap \ {popped} \subseteq heap'
             /\ popped[2] \in visited =>
                  /\ heap' = heap \ {popped}
                  /\ UNCHANGED <<distances, previous, next_hop, visited>>
        /\ \A pushed \in heap' \ heap :
             /\ pushed[1] = distances'[pushed[2]]
             /\ pushed[2] \notin DOMAIN distances \/ pushed[1] < distances[pushed[2]]
        /\ visited' # visited \/ Cardinality(heap') < Cardinality(heap)

\* C20: the search ends: a call that has entered the loop returns with the
\* heap empty; on the way each turn takes an entry out of the heap, drops
\* the entry of a finalized node without relaxing from it, and pushes an
\* entry only for a node whose distance it has lowered.
C20_SearchTerminates ==
    /\ [][SearchTurn]_vars
    /\ (pc = "loop") ~> (pc = "done" /\ heap = {})

\* a search has dropped entries of finalized nodes and holds none
C20_Witness ==
    /\ pc = "done" /\ heap = {} /\ visited = FTNames
    /\ \E n \in FTNames : previous[n] \notin {None, source}
                           /\ {source, n} \in DOMAIN G.weight

\* C21: between the two clicks of an edge creation the node selected by the
\* first click is a node of the model, whatever clicks, mode changes,
\* clear_graph and load_file come in between.
C21_SelectedNodeExists == selected_node # None => selected_node \in G.nodes

\* C22: for distinct nodes s and d, d is a key of the table of s exactly
\* when s is a key of the table of d, whichever way round the records of
\* the edges are written.
C22_ReachabilitySymmetric ==
    (pc = "done" /\ source \in G.nodes) =>
        \A d \in G.nodes \ {source} :
            d \in DOMAIN table <=> source \in DOMAIN ForwardingTable(G, d)

\* a table is returned that has a destination two edges away and lacks
\* another node of the graph
C22_Witness ==
    /\ pc = "done" /\ source \in G.nodes
    /\ \E d \in DOMAIN table : table[d] # d
    /\ \E d \in G.nodes \ {source} : d \notin DOMAIN table

\* C23: every key of node_positions is a node of G, so that
\* find_nearest_node, which looks through node_positions, returns a node of
\* G or None wherever the click is.
C23_PositionsOfNodesOnly ==
    /\ DOMAIN node_positions \subseteq G.nodes
    /\ \A p \in Clicks : FindNearestNode(node_positions, p) \subseteq G.nodes \cup {None}

\* delete_node has returned, a name is no node of G, and find_nearest_node
\* still finds one of the nodes that are left
C23_Witness ==
    /\ call = "delete_node" /\ exc = None
    /\ \E n \in Names : n \notin G.nodes
    /\ \E p \in Clicks : None \notin FindNearestNode(node_positions, p)
    /\ _edges # <<>>

====
